---- MODULE Spec2Model ----
(***************************************************************************)
(* The real-time notification layer of server/routes.ts: the registry      *)
(* userConnections (identity -> set of WebSocket connections), the message *)
(* and close handlers of each connection, broadcastToUser, and the four    *)
(* task request handlers (create, update, delete, share) that call it      *)
(* after their storage call returns.                                       *)
(***************************************************************************)
EXTENDS Integers, Sequences, FiniteSets, TLC

\* ------------------------------------------------------------------ bounds

\* HTTP requests issued in one behaviour.
MaxRequests == 2

\* The ids the serial of the tasks table hands out, and requests name.
TaskIds == {1}

\* WebSocket connections accepted in one behaviour.
Conns == {"c1", "c2"}

\* Authenticated identities (req.user.claims.sub).
Users == {"u1", "u2"}

\* ------------------------------------------------------------- JS values

JSstring(s) == [t |-> "string", v |-> s]
JSnumber(s) == [t |-> "number", v |-> s]
JSundefined == [t |-> "undefined", v |-> ""]

\* Truthiness of a value as `&&` tests it.
Truthy(x) ==
    CASE x.t = "string" -> x.v # ""
      [] x.t = "number" -> x.v \notin {"0", "NaN"}
      [] OTHER -> FALSE

\* The frames a client may send on a connection.
RawMessages ==
    { "{bad",
      "null",
      "42",
      "{\"type\":\"AUTH\",\"userId\":\"u1\"}",
      "{\"type\":\"AUTH\",\"userId\":\"u2\"}",
      "{\"type\":\"AUTH\",\"userId\":\"\"}",
      "{\"type\":\"AUTH\"}",
      "{\"type\":\"AUTH\",\"userId\":5}",
      "{\"type\":\"AUTH\",\"userId\":0}",
      "{\"type\":\"PING\",\"userId\":\"u1\"}" }

ParsedObject(type, userId) ==
    [threw |-> FALSE, kind |-> "object", type |-> type, userId |-> userId]

\* JSON.parse(message): throws on text that is not JSON, otherwise the value.
JSONparse(raw) ==
    CASE raw = "{bad" ->
            [threw |-> TRUE, kind |-> "none", type |-> JSundefined, userId |-> JSundefined]
      [] raw = "null" ->
            [threw |-> FALSE, kind |-> "null", type |-> JSundefined, userId |-> JSundefined]
      [] raw = "42" ->
            [threw |-> FALSE, kind |-> "number", type |-> JSundefined, userId |-> JSundefined]
      [] raw = "{\"type\":\"AUTH\",\"userId\":\"u1\"}" ->
            ParsedObject(JSstring("AUTH"), JSstring("u1"))
      [] raw = "{\"type\":\"AUTH\",\"userId\":\"u2\"}" ->
            ParsedObject(JSstring("AUTH"), JSstring("u2"))
      [] raw = "{\"type\":\"AUTH\",\"userId\":\"\"}" ->
            ParsedObject(JSstring("AUTH"), JSstring(""))
      [] raw = "{\"type\":\"AUTH\"}" ->
            ParsedObject(JSstring("AUTH"), JSundefined)
      [] raw = "{\"type\":\"AUTH\",\"userId\":5}" ->
            ParsedObject(JSstring("AUTH"), JSnumber("5"))
      [] raw = "{\"type\":\"AUTH\",\"userId\":0}" ->
            ParsedObject(JSstring("AUTH"), JSnumber("0"))
      [] raw = "{\"type\":\"PING\",\"userId\":\"u1\"}" ->
            ParsedObject(JSstring("PING"), JSstring("u1"))

\* ---------------------------------------------------------------- JS Map

EmptyMap == [k \in {} |-> {}]
MapHas(m, k) == k \in DOMAIN m
MapSet(m, k, val) == [x \in (DOMAIN m) \cup {k} |-> IF x = k THEN val ELSE m[x]]

\* ----------------------------------------------------------------- state

VARIABLES
    readyState,       \* connection -> "NONE" | "OPEN" | "CLOSING" | "CLOSED"
    userConnections,  \* the registry: Map<userId, Set<WebSocket>>
    outbox,           \* connection -> the ws.send calls made on it, in order
    nbcast,           \* the broadcastToUser calls made so far
    tasks,            \* rows of the tasks table
    nextTaskId,       \* the serial of the tasks table
    taskShares,       \* rows of the task_shares table, in insertion order
    pending,          \* handlers suspended at their await
    nreq,             \* requests issued so far
    malformed,        \* connections that sent a malformed frame while in no set
    uncaught,         \* an exception left a WebSocket handler
    last              \* the request answered by the step into this state, if any

vars == << readyState, userConnections, outbox, nbcast, tasks, nextTaskId,
           taskShares, pending, nreq, malformed, uncaught, last >>

\* ------------------------------------------------- the WebSocket handlers

\* if (data.type === 'AUTH' && data.userId)
AuthCondition(data) == data.type = JSstring("AUTH") /\ Truthy(data.userId)

\* A registration that takes ws out of the set when it is already in it.
registerToggles(reg, userId, ws) ==
    LET withKey == IF ~MapHas(reg, userId) THEN MapSet(reg, userId, {}) ELSE reg
    IN  MapSet(withKey, userId,
               IF ws \in withKey[userId] THEN withKey[userId] \ {ws}
               ELSE withKey[userId] \cup {ws})

\* userConnections.has / set(new Set()) / get(...).add(ws)
register(reg, userId, ws) ==
    LET withKey == IF ~MapHas(reg, userId) THEN MapSet(reg, userId, {}) ELSE reg
    IN  MapSet(withKey, userId, withKey[userId] \cup {ws})

\* The body of the try block of the message handler. Reading .type of null
\* throws a TypeError, like JSON.parse on text that is not JSON.
MessageTryBody(reg, ws, raw) ==
    LET data == JSONparse(raw)
    IN  IF data.threw \/ data.kind = "null"
        THEN [reg |-> reg, threw |-> TRUE]
        ELSE IF AuthCondition(data)
             THEN [reg |-> register(reg, data.userId, ws), threw |-> FALSE]
             ELSE [reg |-> reg, threw |-> FALSE]

\* A message handler whose body is not wrapped in try/catch.
messageHandlerNoCatch(reg, ws, raw) == MessageTryBody(reg, ws, raw)

\* ws.on('message'): the catch logs the error and returns.
messageHandler(reg, ws, raw) ==
    LET body == MessageTryBody(reg, ws, raw)
    IN  IF body.threw THEN [reg |-> reg, threw |-> FALSE] ELSE body

\* A close handler that drops the empty sets but never deletes ws from a set.
closeHandlerKeepsSocket(reg, ws) == [k \in {x \in DOMAIN reg : reg[x] # {}} |-> reg[k]]

\* A close handler that deletes ws from every set and keeps the emptied sets.
closeHandlerKeepsEmptySet(reg, ws) == [k \in DOMAIN reg |-> reg[k] \ {ws}]

\* A close handler that deletes ws from one of the sets that hold it.
closeHandlerOneSet(reg, ws) ==
    LET holding == {k \in DOMAIN reg : ws \in reg[k]}
        one == IF holding = {} THEN {} ELSE {CHOOSE k \in holding : TRUE}
        kept == {k \in DOMAIN reg : k \notin one \/ reg[k] # {ws}}
    IN  [k \in kept |-> IF k \in one THEN reg[k] \ {ws} ELSE reg[k]]

\* A close handler that also deletes the keys whose set never held ws.
closeHandlerDropsOthers(reg, ws) ==
    LET kept == {k \in DOMAIN reg : ws \in reg[k] /\ reg[k] # {ws}}
    IN  [k \in kept |-> reg[k] \ {ws}]

\* ws.on('close'): delete ws from every set, delete the keys whose set is empty.
closeHandler(reg, ws) ==
    LET kept == {k \in DOMAIN reg : reg[k] \ {ws} # {}}
    IN  [k \in kept |-> reg[k] \ {ws}]

\* ------------------------------------------------------------- broadcast

UndefinedPayload == [shape |-> "undefined", id |-> 0, userId |-> ""]
TaskPayload(row) == [shape |-> "task", id |-> row.id, userId |-> row.userId]
IdPayload(id) == [shape |-> "id", id |-> id, userId |-> ""]
SharePayload(taskId, sharedBy) == [shape |-> "share", id |-> taskId, userId |-> sharedBy]

StringifyPayload(p) ==
    CASE p.shape = "task" ->
            "{\"id\":" \o ToString(p.id) \o ",\"userId\":\"" \o p.userId \o "\"}"
      [] p.shape = "id" -> "{\"id\":" \o ToString(p.id) \o "}"
      [] p.shape = "share" ->
            "{\"taskId\":" \o ToString(p.id) \o ",\"sharedBy\":\"" \o p.userId \o "\"}"

\* JSON.stringify(message): a property whose value is undefined is left out.
JSONstringify(message) ==
    IF message.payload.shape = "undefined"
    THEN "{\"type\":\"" \o message.type \o "\"}"
    ELSE "{\"type\":\"" \o message.type \o "\",\"payload\":"
            \o StringifyPayload(message.payload) \o "}"

\* Targets chosen without the readyState test.
BroadcastTargetsAnyState(reg, ready, userId) ==
    IF MapHas(reg, userId) THEN reg[userId] ELSE {}

\* The connections broadcastToUser calls ws.send on.
BroadcastTargets(reg, ready, userId) ==
    IF MapHas(reg, userId)
    THEN {ws \in reg[userId] : ready[ws] = "OPEN"}
    ELSE {}

\* A send that throws when the socket loses the frame.
SendThrowsOnLoss(ws, lost) == ws \in lost

\* ws.send(messageStr) on an OPEN socket queues the frame and returns, also
\* when the socket goes on to lose it (lost): a failed write is reported
\* later, by the socket's close, never by an exception of send.
SendThrows(ws, lost) == FALSE

\* A broadcast that walks every set of the registry instead of the user's.
broadcastToEveryone(reg, ready, out, userId, message, seq, lost) ==
    LET messageStr == JSONstringify(message)
        targets == {ws \in UNION {reg[k] : k \in DOMAIN reg} : ready[ws] = "OPEN"}
    IN  [outbox |-> [ws \in DOMAIN out |->
                        IF ws \in targets
                        THEN Append(out[ws], [seq |-> seq, to |-> userId, data |-> messageStr])
                        ELSE out[ws]],
         threw |-> FALSE]

\* A broadcast whose frame overtakes the frames already queued on the socket.
broadcastOutOfOrder(reg, ready, out, userId, message, seq, lost) ==
    LET messageStr == JSONstringify(message)
        targets == BroadcastTargets(reg, ready, userId)
    IN  [outbox |-> [ws \in DOMAIN out |->
                        IF ws \in targets
                        THEN << [seq |-> seq, to |-> userId, data |-> messageStr] >> \o out[ws]
                        ELSE out[ws]],
         threw |-> FALSE]

\* A broadcast that throws when it finds no connection to write to.
broadcastRequiresRecipient(reg, ready, out, userId, message, seq, lost) ==
    LET messageStr == JSONstringify(message)
        targets == BroadcastTargets(reg, ready, userId)
    IN  [outbox |-> [ws \in DOMAIN out |->
                        IF ws \in targets
                        THEN Append(out[ws], [seq |-> seq, to |-> userId, data |-> messageStr])
                        ELSE out[ws]],
         threw |-> targets = {}]

\* broadcastToUser(userId, message): the outbox after the call, and whether the
\* call threw.
broadcastToUser(reg, ready, out, userId, message, seq, lost) ==
    LET messageStr == JSONstringify(message)
        targets == BroadcastTargets(reg, ready, userId)
    IN  [outbox |-> [ws \in DOMAIN out |->
                        IF ws \in targets
                        THEN Append(out[ws], [seq |-> seq, to |-> userId, data |-> messageStr])
                        ELSE out[ws]],
         threw |-> \E ws \in targets : SendThrows(ws, lost)]

\* ---------------------------------------------------------------- storage

\* storage.createTask: insert ... returning.
createTask(tbl, id, task) == tbl \cup {[id |-> id, userId |-> task.userId]}

\* The rows `where id = :id and user_id = :userId` selects.
Matching(tbl, id, userId) == {row \in tbl : row.id = id /\ row.userId = userId}

\* storage.updateTask: update ... set {...updates} where ... returning.
\* updates is a Partial<InsertTask>: it may carry a userId ("" when it does not).
UpdatedRow(row, updates) ==
    IF updates.userId = "" THEN row ELSE [row EXCEPT !.userId = updates.userId]

updateTask(tbl, id, userId, updates) ==
    {IF row \in Matching(tbl, id, userId) THEN UpdatedRow(row, updates) ELSE row : row \in tbl}

\* storage.deleteTask: delete ... where ...; result.rowCount > 0.
deleteTask(tbl, id, userId) == tbl \ Matching(tbl, id, userId)

\* storage.shareTask: insert ... returning.
shareTask(shares, taskShare) == Append(shares, taskShare)

\* ------------------------------------------------------- request handlers

\* What a handler does once its storage call has settled: the broadcastToUser
\* calls it makes (none or one) and the response it sends if none of them throws.
Plan(calls, status) == [calls |-> calls, status |-> status]
Call(userId, type, payload) ==
    [userId |-> JSstring(userId), message |-> [type |-> type, payload |-> payload]]

\* catch (error) { res.status(500).json(...) }
Caught == Plan(<< >>, 500)

\* app.post('/api/tasks') after `await storage.createTask(taskData)`.
createHandler(req) ==
    IF req.outcome = "threw" THEN Caught
    ELSE Plan(<< Call(req.actor, "TASK_CREATED",
                      TaskPayload([id |-> req.taskId, userId |-> req.rowUser])) >>, 201)

\* app.put('/api/tasks/:id') after `await storage.updateTask(...)`: task is
\* undefined when no row matched, and is broadcast and returned all the same.
updateHandler(req) ==
    IF req.outcome = "threw" THEN Caught
    ELSE Plan(<< Call(req.actor, "TASK_UPDATED",
                      IF req.outcome = "ok"
                      THEN TaskPayload([id |-> req.taskId, userId |-> req.rowUser])
                      ELSE UndefinedPayload) >>, 200)

\* app.delete('/api/tasks/:id') after `await storage.deleteTask(...)`.
deleteHandler(req) ==
    IF req.outcome = "threw" THEN Caught
    ELSE IF req.outcome = "ok"
         THEN Plan(<< Call(req.actor, "TASK_DELETED", IdPayload(req.taskId)) >>, 200)
         ELSE Plan(<< >>, 404)

\* app.post('/api/tasks/:id/share') after `await storage.shareTask(shareData)`.
shareHandler(req) ==
    IF req.outcome = "threw" THEN Caught
    ELSE Plan(<< Call(req.recipient, "TASK_SHARED",
                      SharePayload(req.taskId, req.actor)) >>, 201)

\* The status the handler answers with: an exception thrown by broadcastToUser
\* inside the try block reaches the same catch.
ResponseStatus(plan, broadcastThrew) == IF broadcastThrew THEN 500 ELSE plan.status

\* ---------------------------------------------------------------- history

\* The answer a handler gave: what it was asked, what storage did, the
\* broadcastToUser calls it made, the writes of those calls that were lost, and
\* the HTTP status. NoLast in every state not entered by an answer.
NoLast ==
    [op |-> "none", kind |-> "", actor |-> "", taskId |-> 0,
     recipient |-> "", changed |-> FALSE, rowUser |-> "", status |-> 0,
     calls |-> << >>, lost |-> {}]

Request(kind, actor, taskId, recipient, outcome, rowUser) ==
    [kind |-> kind, actor |-> actor, taskId |-> taskId,
     recipient |-> recipient, outcome |-> outcome, rowUser |-> rowUser]

Answer(req, status, calls, lost) ==
    [op |-> "response", kind |-> req.kind, actor |-> req.actor,
     taskId |-> req.taskId, recipient |-> req.recipient,
     changed |-> (req.outcome = "ok"), rowUser |-> req.rowUser,
     status |-> status, calls |-> calls, lost |-> lost]

\* ------------------------------------------------------------------- Init

Init ==
    /\ readyState = [c \in Conns |-> "NONE"]
    /\ userConnections = EmptyMap
    /\ outbox = [c \in Conns |-> << >>]
    /\ nbcast = 0
    /\ tasks = {}
    /\ nextTaskId = 1
    /\ taskShares = << >>
    /\ pending = {}
    /\ nreq = 0
    /\ malformed = {}
    /\ uncaught = FALSE
    /\ last = NoLast

\* ----------------------------------------------------- connection actions

\* A frame that is not JSON, or is JSON but no object.
MalformedFrame(raw) == JSONparse(raw).threw \/ JSONparse(raw).kind # "object"

\* The identities whose set holds the connection.
IdentitiesOf(reg, c) == {k \in DOMAIN reg : c \in reg[k]}
Unbound(reg, c) == IdentitiesOf(reg, c) = {}

\* wss.on('connection'): the handlers are attached to a socket that is OPEN.
Connect(c) ==
    /\ readyState[c] = "NONE"
    /\ readyState' = [readyState EXCEPT ![c] = "OPEN"]
    /\ last' = NoLast
    /\ UNCHANGED << userConnections, outbox, nbcast, tasks, nextTaskId,
                    taskShares, pending, nreq, malformed, uncaught >>

\* A frame arrives: frames are delivered until the close event is emitted.
OnMessage(c, raw) ==
    /\ readyState[c] \in {"OPEN", "CLOSING"}
    /\ LET r == messageHandler(userConnections, c, raw)
       IN  /\ userConnections' = r.reg
           /\ uncaught' = (uncaught \/ r.threw)
           /\ malformed' = IF MalformedFrame(raw) /\ Unbound(userConnections, c)
                           THEN malformed \cup {c} ELSE malformed
    /\ last' = NoLast
    /\ UNCHANGED << readyState, outbox, nbcast, tasks, nextTaskId,
                    taskShares, pending, nreq >>

\* A close frame, an error or the end of the socket, from either side: the
\* connection leaves OPEN; its close event is emitted later.
Disconnect(c) ==
    /\ readyState[c] = "OPEN"
    /\ readyState' = [readyState EXCEPT ![c] = "CLOSING"]
    /\ last' = NoLast
    /\ UNCHANGED << userConnections, outbox, nbcast, tasks, nextTaskId,
                    taskShares, pending, nreq, malformed, uncaught >>

\* The close event: readyState is CLOSED when the handler runs.
OnClose(c) ==
    /\ readyState[c] = "CLOSING"
    /\ readyState' = [readyState EXCEPT ![c] = "CLOSED"]
    /\ userConnections' = closeHandler(userConnections, c)
    /\ last' = NoLast
    /\ UNCHANGED << outbox, nbcast, tasks, nextTaskId, taskShares, pending, nreq,
                    malformed, uncaught >>

\* -------------------------------------------------------- request actions

\* A request is taken up while no handler is suspended: handlers overlap with
\* the connection events, not with each other.
CanStart == nreq < MaxRequests /\ pending = {}

\* The handler runs up to its await: the storage call is issued and settles
\* (commits, matches no row, or throws) while the handler is suspended.
Suspend(req) ==
    /\ pending' = pending \cup {req}
    /\ nreq' = nreq + 1
    /\ last' = NoLast
    /\ UNCHANGED << readyState, userConnections, outbox, nbcast, malformed, uncaught >>

\* The rest of the handler: it broadcasts and answers. lost are the
\* connections whose socket drops the frame written to it.
Complete(req, plan, lost) ==
    LET none == (plan.calls = << >>)
        call == plan.calls[1]
        targets == IF none THEN {}
                   ELSE BroadcastTargets(userConnections, readyState, call.userId)
        b == IF none
             THEN [outbox |-> outbox, threw |-> FALSE]
             ELSE broadcastToUser(userConnections, readyState, outbox,
                                  call.userId, call.message, nbcast + 1, lost)
    IN  /\ lost \subseteq targets
        /\ outbox' = b.outbox
        /\ nbcast' = nbcast + Len(plan.calls)
        /\ last' = Answer(req, ResponseStatus(plan, b.threw), plan.calls, lost)

Resume(req, plan, lost) ==
    /\ req \in pending
    /\ pending' = pending \ {req}
    /\ Complete(req, plan, lost)
    /\ UNCHANGED << readyState, userConnections, tasks, nextTaskId,
                    taskShares, nreq, malformed, uncaught >>

\* insertTaskSchema.parse / insertTaskShareSchema.parse throws on the body:
\* the handler answers 500 from its catch without reaching storage.
BadBody(kind, actor) ==
    /\ nreq < MaxRequests
    /\ nreq' = nreq + 1
    /\ Complete(Request(kind, actor, 0, "", "threw", ""), Caught, {})
    /\ UNCHANGED << readyState, userConnections, tasks, nextTaskId,
                    taskShares, pending, malformed, uncaught >>

CreateRequest(actor, dbOk) ==
    /\ CanStart
    /\ dbOk => nextTaskId \in TaskIds
    /\ tasks' = IF dbOk THEN createTask(tasks, nextTaskId, [userId |-> actor]) ELSE tasks
    /\ nextTaskId' = IF dbOk THEN nextTaskId + 1 ELSE nextTaskId
    /\ Suspend(IF dbOk
               THEN Request("create", actor, nextTaskId, "", "ok", actor)
               ELSE Request("create", actor, 0, "", "threw", ""))
    /\ UNCHANGED taskShares

UpdateRequest(actor, id, newOwner, dbOk) ==
    LET hit == Matching(tasks, id, actor) # {}
        owner == IF newOwner = "" THEN actor ELSE newOwner
    IN  /\ CanStart
        /\ tasks' = IF dbOk THEN updateTask(tasks, id, actor, [userId |-> newOwner])
                    ELSE tasks
        /\ Suspend(IF ~dbOk THEN Request("update", actor, id, "", "threw", "")
                   ELSE IF hit THEN Request("update", actor, id, "", "ok", owner)
                   ELSE Request("update", actor, id, "", "nomatch", ""))
        /\ UNCHANGED << nextTaskId, taskShares >>

DeleteRequest(actor, id, dbOk) ==
    LET hit == Matching(tasks, id, actor) # {}
    IN  /\ CanStart
        /\ tasks' = IF dbOk THEN deleteTask(tasks, id, actor) ELSE tasks
        /\ Suspend(IF ~dbOk THEN Request("delete", actor, id, "", "threw", "")
                   ELSE IF hit THEN Request("delete", actor, id, "", "ok", actor)
                   ELSE Request("delete", actor, id, "", "nomatch", ""))
        /\ UNCHANGED << nextTaskId, taskShares >>

ShareRequest(actor, id, recipient, dbOk) ==
    /\ CanStart
    /\ taskShares' = IF dbOk
                     THEN shareTask(taskShares, [taskId |-> id, userId |-> recipient,
                                                 sharedById |-> actor])
                     ELSE taskShares
    /\ Suspend(IF dbOk
               THEN Request("share", actor, id, recipient, "ok", recipient)
               ELSE Request("share", actor, id, recipient, "threw", ""))
    /\ UNCHANGED << tasks, nextTaskId >>

CreateResume(req, lost) == req.kind = "create" /\ Resume(req, createHandler(req), lost)
UpdateResume(req, lost) == req.kind = "update" /\ Resume(req, updateHandler(req), lost)
DeleteResume(req, lost) == req.kind = "delete" /\ Resume(req, deleteHandler(req), lost)
ShareResume(req, lost) == req.kind = "share" /\ Resume(req, shareHandler(req), lost)

\* ------------------------------------------------------------------- Next

\* The frames that bind a connection to one of the Users.
AuthFrames ==
    { "{\"type\":\"AUTH\",\"userId\":\"u1\"}",
      "{\"type\":\"AUTH\",\"userId\":\"u2\"}" }

\* The connection side: accept, frame, leave OPEN, close event.
WsNext(frames) ==
    \/ \E c \in Conns : Connect(c)
    \/ \E c \in Conns, raw \in frames : OnMessage(c, raw)
    \/ \E c \in Conns : Disconnect(c)
    \/ \E c \in Conns : OnClose(c)

\* The request side: the four task handlers, before and after their await.
HttpNext ==
    \/ \E kind \in {"create", "update", "share"}, actor \in Users : BadBody(kind, actor)
    \/ \E actor \in Users, dbOk \in BOOLEAN : CreateRequest(actor, dbOk)
    \/ \E actor \in Users, id \in TaskIds, newOwner \in Users \cup {""}, dbOk \in BOOLEAN :
            UpdateRequest(actor, id, newOwner, dbOk)
    \/ \E actor \in Users, id \in TaskIds, dbOk \in BOOLEAN : DeleteRequest(actor, id, dbOk)
    \/ \E actor \in Users, id \in TaskIds, recipient \in Users, dbOk \in BOOLEAN :
            ShareRequest(actor, id, recipient, dbOk)
    \/ \E req \in pending, lost \in SUBSET Conns : CreateResume(req, lost)
    \/ \E req \in pending, lost \in SUBSET Conns : UpdateResume(req, lost)
    \/ \E req \in pending, lost \in SUBSET Conns : DeleteResume(req, lost)
    \/ \E req \in pending, lost \in SUBSET Conns : ShareResume(req, lost)

\* Requests and broadcasts over connections whose clients send AUTH frames.
Next == WsNext(AuthFrames) \/ HttpNext

Spec == Init /\ [][Next]_vars

\* The registry under every frame a client may send. The request handlers read
\* the registry and never write it, so they are left out.
RegistryNext == WsNext(RawMessages)

RegistrySpec == Init /\ [][RegistryNext]_vars

\* The transport emits the close event of every connection that has left OPEN.
RegistryLiveSpec == RegistrySpec /\ \A c \in Conns : WF_vars(OnClose(c))

\* ------------------------------------------------------------ properties

\* The connections in userId's set that are OPEN.
OpenMembers(userId) ==
    {c \in Conns : userId \in IdentitiesOf(userConnections, c) /\ readyState[c] = "OPEN"}

\* The step is the answer of a handler that called broadcastToUser.
BroadcastStep == last'.op = "response" /\ last'.calls # << >>

\* C1: in every reachable state each connection is in at most one identity's
\* set, whatever AUTH frames and close events came before.
C1_AtMostOneIdentity ==
    \A c \in Conns : Cardinality(IdentitiesOf(userConnections, c)) <= 1

\* C2: a call broadcastToUser(I, E) writes the one serialized message of E to
\* every connection that is in I's set and OPEN when it is called, and writes
\* nothing to any other connection.
C2_BroadcastWritesToOpenMembersOnly ==
    [][ BroadcastStep =>
          LET call == last'.calls[1]
              entry == [seq |-> nbcast', to |-> call.userId,
                        data |-> JSONstringify(call.message)]
          IN  \A c \in Conns :
                outbox'[c] = IF c \in OpenMembers(call.userId)
                             THEN Append(outbox[c], entry)
                             ELSE outbox[c] ]_vars

\* C2 witness: a broadcast has just written to an OPEN connection of its
\* identity while another OPEN connection, bound to a different identity only,
\* and passed over, has nothing.
C2_Witness ==
    /\ last.op = "response" /\ last.calls # << >>
    /\ \E c \in Conns, d \in Conns :
         /\ c \in OpenMembers(last.calls[1].userId)
         /\ outbox[c] # << >>
         /\ outbox[c][Len(outbox[c])].data = JSONstringify(last.calls[1].message)
         /\ readyState[d] = "OPEN"
         /\ IdentitiesOf(userConnections, d) # {}
         /\ last.calls[1].userId \notin IdentitiesOf(userConnections, d)
         /\ outbox[d] = << >>

\* C3: a request broadcasts exactly once when its storage call changed a row
\* and not at all when it threw or matched no row.
C3_OneBroadcastPerCommit ==
    last.op = "response" => Len(last.calls) = (IF last.changed THEN 1 ELSE 0)

\* C4: a connection whose close handler has run receives nothing from later
\* broadcasts, binding to an identity delivers nothing of what was broadcast
\* before, and a connection's outbox grows exactly by the broadcasts to an
\* identity made while it is in that identity's set and OPEN.
C4_ReceivesOnlyWhileRegisteredAndOpen ==
    [][ /\ userConnections' # userConnections => outbox' = outbox
        /\ \A c \in Conns :
             LET grew == outbox'[c] # outbox[c]
                 due == /\ BroadcastStep
                        /\ readyState[c] = "OPEN"
                        /\ last'.calls[1].userId \in IdentitiesOf(userConnections, c)
             IN  /\ readyState[c] = "CLOSED" => ~grew
                 /\ grew <=> due
                 /\ grew => /\ Len(outbox'[c]) = Len(outbox[c]) + 1
                            /\ SubSeq(outbox'[c], 1, Len(outbox[c])) = outbox[c]
                            /\ outbox'[c][Len(outbox'[c])].seq = nbcast'
                            /\ outbox'[c][Len(outbox'[c])].to = last'.calls[1].userId
      ]_vars

\* C4 witness: after two broadcasts to one identity, a connection that closed
\* in between holds the first only, and a connection that bound in between
\* holds the second only.
C4_Witness ==
    /\ last.op = "response" /\ last.calls # << >>
    /\ nbcast = 2
    /\ \E c \in Conns, d \in Conns :
         /\ readyState[c] = "CLOSED"
         /\ Len(outbox[c]) = 1
         /\ outbox[c][1].seq = 1
         /\ outbox[c][1].to = last.calls[1].userId
         /\ d \in OpenMembers(last.calls[1].userId)
         /\ Len(outbox[d]) = 1
         /\ outbox[d][1].seq = 2

\* C5: two broadcasts to one identity reach every connection that gets both in
\* the order of the calls.
C5_PerIdentityOrder ==
    \A c \in Conns : \A i \in 1..Len(outbox[c]), j \in 1..Len(outbox[c]) :
        (i < j /\ outbox[c][i].to = outbox[c][j].to)
            => outbox[c][i].seq < outbox[c][j].seq

\* C5 witness: a connection holds two broadcasts of one identity.
C5_Witness ==
    \E c \in Conns :
        /\ Len(outbox[c]) >= 2
        /\ outbox[c][1].to = outbox[c][2].to
        /\ outbox[c][1].seq # outbox[c][2].seq

C7_ClosedEventuallyRemoved ==
    \A c \in Conns :
        (readyState[c] \in {"CLOSING", "CLOSED"})
            ~> [](Unbound(userConnections, c))

\* C7 witness: one connection has closed and is in no set while another has
\* left OPEN and is still in a set, its close event not yet emitted.
C7_Witness ==
    \E c \in Conns, d \in Conns :
        /\ readyState[c] = "CLOSED" /\ Unbound(userConnections, c)
        /\ readyState[d] = "CLOSING" /\ ~Unbound(userConnections, d)

\* A frame of the exact shape {type: "AUTH", userId: <non-empty string>}.
ExactAuthShape(raw) ==
    LET data == JSONparse(raw)
    IN  /\ ~data.threw /\ data.kind = "object"
        /\ data.type = JSstring("AUTH")
        /\ data.userId.t = "string" /\ data.userId.v # ""

\* C8: a frame of any shape other than {type: "AUTH", userId: <non-empty
\* string>} leaves the registry unchanged.
C8_OnlyExactAuthChangesRegistry ==
    [][ \A c \in Conns, raw \in RawMessages :
          (OnMessage(c, raw) /\ ~ExactAuthShape(raw))
              => userConnections' = userConnections ]_vars

\* C9: a malformed frame leaves the registry and the connection as they were,
\* no exception leaves the message handler, and a valid AUTH frame that follows
\* on the same connection registers it.
C9_MalformedFrameDiscarded ==
    [][ \A c \in Conns, raw \in RawMessages :
          OnMessage(c, raw) =>
            /\ ~uncaught'
            /\ MalformedFrame(raw) =>
                  /\ userConnections' = userConnections
                  /\ readyState' = readyState
            /\ (c \in malformed /\ raw \in AuthFrames) =>
                  /\ JSONparse(raw).userId \in DOMAIN userConnections'
                  /\ c \in userConnections'[JSONparse(raw).userId] ]_vars

\* C9 witness: a connection that sent a malformed frame while unbound is now
\* registered, and no exception has left a handler.
C9_Witness ==
    /\ ~uncaught
    /\ \E c \in malformed : JSstring("u1") \in IdentitiesOf(userConnections, c)

\* The identities that own the task a response is about: the userId of the row
\* the storage call wrote or deleted, else of the row with that id.
OwnersOfTask(r) ==
    IF r.changed THEN {r.rowUser}
    ELSE {row.userId : row \in {x \in tasks : x.id = r.taskId}}

\* C10: TASK_CREATED, TASK_UPDATED and TASK_DELETED are broadcast to the
\* identity that owns the task, TASK_SHARED to the recipient of the share.
C10_TargetByEventKind ==
    last.op = "response" =>
        \A i \in 1..Len(last.calls) :
            LET call == last.calls[i]
            IN  IF call.message.type = "TASK_SHARED"
                THEN call.userId = JSstring(last.recipient)
                ELSE \A owner \in OwnersOfTask(last) : call.userId = JSstring(owner)

\* C11: no identity is a key of the registry with an empty set of connections:
\* a close event that removes the last connection of an identity deletes the
\* key in the same step, and an AUTH leaves the set it creates non-empty.
C11_NoEmptyEntry ==
    \A k \in DOMAIN userConnections : userConnections[k] # {}

\* C11 witness: a connection that received a broadcast as a member of an
\* identity's set has closed, and the identity is no key of the registry any
\* more, while the other connection is OPEN in a set an AUTH created.
C11_Witness ==
    \E c \in Conns, d \in Conns :
        /\ readyState[c] = "CLOSED"
        /\ outbox[c] # << >>
        /\ outbox[c][1].to \notin DOMAIN userConnections
        /\ readyState[d] = "OPEN"
        /\ \E k \in DOMAIN userConnections : userConnections[k] = {d}

\* C12: when the close handler of a connection runs, the connection is in no
\* identity's set afterwards, every identity whose set held it alone has no
\* connections, and the sets that held it with others lose it only, whatever
\* AUTH frames the connection sent before.
C12_RegisterThenUnregister ==
    [][ \A c \in Conns :
          OnClose(c) =>
            /\ Unbound(userConnections', c)
            /\ \A k \in IdentitiesOf(userConnections, c) :
                  IF userConnections[k] = {c}
                  THEN k \notin DOMAIN userConnections'
                  ELSE /\ k \in DOMAIN userConnections'
                       /\ userConnections'[k] = userConnections[k] \ {c} ]_vars

\* C12 witness: a connection that received broadcasts as a member of the sets
\* of two identities has closed and is in no set, one of the identities has no
\* connections and the other keeps the connection it shared the set with.
C12_Witness ==
    \E c \in Conns, d \in Conns :
        /\ readyState[c] = "CLOSED"
        /\ Len(outbox[c]) = 2
        /\ outbox[c][1].to # outbox[c][2].to
        /\ Unbound(userConnections, c)
        /\ DOMAIN userConnections = {outbox[c][2].to}
        /\ userConnections[outbox[c][2].to] = {d}

\* C13: a broadcastToUser call for an identity that has no key in the
\* registry, or whose connections are all out of OPEN, writes to no
\* connection, leaves the registry as it is and does not throw: the handler
\* answers with its own status.
C13_NoOpenRecipientIsNoOp ==
    [][ (BroadcastStep /\ OpenMembers(last'.calls[1].userId) = {}) =>
          /\ outbox' = outbox
          /\ userConnections' = userConnections
          /\ last'.status \in {200, 201} ]_vars

\* C13 witness: a handler has just broadcast to an identity whose set holds
\* connections that have all left OPEN; nothing was written and the request
\* was answered 201.
C13_Witness ==
    /\ last.op = "response" /\ last.calls # << >>
    /\ last.calls[1].userId \in DOMAIN userConnections
    /\ \A c \in userConnections[last.calls[1].userId] : readyState[c] = "CLOSING"
    /\ \A c \in Conns : outbox[c] = << >>
    /\ last.status = 201

\* C14: an identity is a key of the registry if and only if a connection bound
\* to it is OPEN.
C14_EntryIffOpenConnection ==
    /\ \A k \in DOMAIN userConnections : OpenMembers(k) # {}
    /\ \A c \in Conns : \A k \in IdentitiesOf(userConnections, c) :
          k \in DOMAIN userConnections

\* C15: handling an AUTH frame adds the connection to the set of the frame's
\* userId and changes no other entry, handling the same frame a second time
\* changes nothing, and neither call throws.
C15_RegisterIdempotent ==
    [][ \A c \in Conns, raw \in RawMessages :
          (OnMessage(c, raw) /\ AuthCondition(JSONparse(raw))) =>
            LET k == JSONparse(raw).userId
                again == messageHandler(userConnections', c, raw)
            IN  /\ ~uncaught'
                /\ DOMAIN userConnections' = DOMAIN userConnections \cup {k}
                /\ userConnections'[k] =
                      (IF k \in DOMAIN userConnections THEN userConnections[k] ELSE {})
                          \cup {c}
                /\ \A j \in DOMAIN userConnections \ {k} :
                      userConnections'[j] = userConnections[j]
                /\ again.reg = userConnections'
                /\ ~again.threw ]_vars

\* C15 witness: two OPEN connections are registered under one identity, one of
\* them under a second identity as well, and the AUTH frame of the shared
\* identity handled again on either leaves the registry as it is.
C15_Witness ==
    LET auth == "{\"type\":\"AUTH\",\"userId\":\"u1\"}"
    IN  /\ \A c \in Conns : readyState[c] = "OPEN"
        /\ JSstring("u1") \in DOMAIN userConnections
        /\ userConnections[JSstring("u1")] = Conns
        /\ JSstring("u2") \in DOMAIN userConnections
        /\ \A c \in Conns : messageHandler(userConnections, c, auth).reg = userConnections

\* C16: the close handler of a connection that is in no identity's set leaves
\* the registry unchanged and does not throw, and the close handler run again
\* for a connection it has removed changes nothing.
C16_UnregisterAbsentIsNoOp ==
    [][ \A c \in Conns :
          OnClose(c) =>
            /\ Unbound(userConnections, c) => userConnections' = userConnections
            /\ closeHandler(userConnections', c) = userConnections'
            /\ ~uncaught' ]_vars

\* C16 witness: a connection that sent a malformed frame while in no set has
\* closed and is in no set, the other connection is registered under two
\* identities, and no exception has left a handler.
C16_Witness ==
    \E c \in Conns, d \in Conns :
        /\ c \in malformed
        /\ readyState[c] = "CLOSED"
        /\ Unbound(userConnections, c)
        /\ Cardinality(IdentitiesOf(userConnections, d)) = 2
        /\ ~uncaught

====
